---- MODULE Spec2Model ----
\* A model of the rules core of the card game engine: the Board (Board.py),
\* the Deck (Deck.py), the RulesEngine (Rules_Engine.py) and the Game_Manager
\* (Game_Manager.py) with its Players (Player.py).
\* Python lists are sequences (index 0 of Python is index 1 here), object
\* references are the values they refer to, None is the record None.
EXTENDS Integers, Sequences, FiniteSets, Bags, TLC

VARIABLES
    locations,      \* Board.locations: rows of Location objects
    intersections,  \* Board.intersections: rows of Intersection objects
    boardCall,      \* the last Board query: its name, arguments and return value
    cards,          \* the card list Deck.__init__ was given
    atlas,          \* Deck.atlas
    spellbook,      \* Deck.spellbook
    hand,           \* Deck.hand
    cemetery,       \* Deck.cemetery
    library,        \* Deck.library
    deckCall,       \* the last Deck operation: its name and return value
    ability_lookup, \* RulesEngine.ability_lookup
    storyline,      \* RulesEngine.storyline
    rulesCall,      \* the last RulesEngine operation: its name and return value
    rulesArgs,      \* the arguments of the last RulesEngine operation, as it left them
    players,        \* Game_Manager.players: the life of Player(0) and Player(1)
    state,          \* Game_Manager.state
    turn,           \* Game_Manager.turn
    pc,             \* the place Game_Manager.run has reached ("idle": not called)
    gmCall          \* the last Game_Manager method called: its name and return value

boardVars == <<locations, intersections, boardCall>>
deckVars == <<cards, atlas, spellbook, hand, cemetery, library, deckCall>>
rulesVars == <<ability_lookup, storyline, rulesCall, rulesArgs>>
gameVars == <<players, state, turn, pc, gmCall>>
vars == <<locations, intersections, boardCall, cards, atlas, spellbook, hand,
          cemetery, library, deckCall, ability_lookup, storyline, rulesCall,
          rulesArgs, players, state, turn, pc, gmCall>>

-----------------------------------------------------------------------------
\* Python values

None == [tag |-> "None"]

\* Python's truth value of an object reference: None is false, an instance of a
\* class that defines neither __bool__ nor __len__ is true.
Truthy(v) == v /= None

IndexError == [tag |-> "IndexError"]

\* The objects True and False, and an int where a variable also holds None.
PyBool(b) == [tag |-> "bool", value |-> b]
PyInt(n) == [tag |-> "int", value |-> n]

\* `not v` of Python, for v None, a bool or an object.
Not(v) == v = None \/ v = PyBool(FALSE)

\* list[i] of Python: a negative index counts from the end of the list.
PyGet(list, i) ==
    IF 0 <= i /\ i < Len(list) THEN list[i + 1]
    ELSE IF 0 - Len(list) <= i /\ i < 0 THEN list[Len(list) + i + 1]
    ELSE IndexError

Range(s) == {s[k] : k \in 1..Len(s)}

-----------------------------------------------------------------------------
\* Board.py

ROWS == 5
COLS == 4

\* Location.__init__
Location ==
    [site |-> None, surfaceSpells |-> <<>>, subSurfaceSpells |-> <<>>,
     isWater |-> FALSE, bodyIndex |-> 0 - 1, index |-> 0 - 1]

\* Intersection.__init__
Intersection(adjacent_locations) ==
    [spells |-> <<>>, adjacent_locations |-> adjacent_locations]

\* The inner loop of Board.__init__, `for j in range(self.COLS)`, from column j
\* on: the row built and the running index after it.
RECURSIVE BuildRow(_, _, _)
BuildRow(j, index, row) ==
    IF j >= COLS THEN [row |-> row, index |-> index]
    ELSE BuildRow(j + 1, index + 1, Append(row, [Location EXCEPT !.index = index]))

\* The outer loop of Board.__init__, `for i in range(self.ROWS)`, from row i on.
RECURSIVE BuildLocations(_, _, _)
BuildLocations(i, index, locs) ==
    IF i >= ROWS THEN locs
    ELSE LET r == BuildRow(0, index, <<>>)
         IN  BuildLocations(i + 1, r.index, Append(locs, r.row))

\* A construction that numbers the cells from 0.
BoardLocationsZeroBased == BuildLocations(0, 0, <<>>)

\* self.locations after Board.__init__ (index = 1 before the loops).
BoardLocations == BuildLocations(0, 1, <<>>)

\* Intersection.adjacent_locations without the base location appended in the
\* last row and column.
IntersectionAdjNoBase(locs, i, j) ==
    IF i < ROWS - 1 /\ j < COLS - 1
    THEN << PyGet(PyGet(locs, i), j),
            PyGet(PyGet(locs, i), j + 1),
            PyGet(PyGet(locs, i + 1), j),
            PyGet(PyGet(locs, i + 1), j + 1) >>
    ELSE LET a1 == IF i < ROWS - 1 THEN << PyGet(PyGet(locs, i + 1), j) >> ELSE <<>>
         IN  IF j < COLS - 1 THEN Append(a1, PyGet(PyGet(locs, i), j + 1)) ELSE a1

\* Intersection.adjacent_locations with the last row and column reduced to the
\* base location alone.
IntersectionAdjBaseOnly(locs, i, j) ==
    IF i < ROWS - 1 /\ j < COLS - 1
    THEN << PyGet(PyGet(locs, i), j),
            PyGet(PyGet(locs, i), j + 1),
            PyGet(PyGet(locs, i + 1), j),
            PyGet(PyGet(locs, i + 1), j + 1) >>
    ELSE << PyGet(PyGet(locs, i), j) >>

\* The body of the loops of create_intersections for cell (i, j).
IntersectionAdj(locs, i, j) ==
    IF i < ROWS - 1 /\ j < COLS - 1
    THEN << PyGet(PyGet(locs, i), j),
            PyGet(PyGet(locs, i), j + 1),
            PyGet(PyGet(locs, i + 1), j),
            PyGet(PyGet(locs, i + 1), j + 1) >>
    ELSE LET a1 == IF i < ROWS - 1 THEN << PyGet(PyGet(locs, i + 1), j) >> ELSE <<>>
             a2 == IF j < COLS - 1 THEN Append(a1, PyGet(PyGet(locs, i), j + 1)) ELSE a1
         IN  Append(a2, PyGet(PyGet(locs, i), j))

RECURSIVE IntersectionRow(_, _, _, _)
IntersectionRow(locs, i, j, row) ==
    IF j >= COLS THEN row
    ELSE IntersectionRow(locs, i, j + 1,
                         Append(row, Intersection(IntersectionAdj(locs, i, j))))

RECURSIVE IntersectionRows(_, _, _)
IntersectionRows(locs, i, acc) ==
    IF i >= ROWS THEN acc
    ELSE IntersectionRows(locs, i + 1, Append(acc, IntersectionRow(locs, i, 0, <<>>)))

\* Board.create_intersections
create_intersections(locs) == IntersectionRows(locs, 0, <<>>)

\* A lookup that checks only the upper bounds.
get_location_upper_only(row, col) ==
    IF row < ROWS /\ col < COLS
    THEN PyGet(PyGet(locations, row), col)
    ELSE None

\* Board.get_location
get_location(row, col) ==
    IF 0 <= row /\ row < ROWS /\ 0 <= col /\ col < COLS
    THEN PyGet(PyGet(locations, row), col)
    ELSE None

\* Board.get_intersection
get_intersection(row, col) ==
    IF 0 <= row /\ row < ROWS /\ 0 <= col /\ col < COLS
    THEN PyGet(PyGet(intersections, row), col)
    ELSE None

\* The four directions with down ahead of up.
DirectionsDownFirst == << <<1, 0>>, <<0 - 1, 0>>, <<0, 0 - 1>>, <<0, 1>> >>

\* directions of get_projectile_locations and get_adjacent_locations:
\* up, down, left, right
Directions == << <<0 - 1, 0>>, <<1, 0>>, <<0, 0 - 1>>, <<0, 1>> >>

\* directions of get_nearby_locations
NearbyDirections ==
    << <<0 - 1, 0 - 1>>, <<0 - 1, 0>>, <<0 - 1, 1>>,
       <<0, 0 - 1>>, <<0, 1>>,
       <<1, 0 - 1>>, <<1, 0>>, <<1, 1>> >>

\* The while loop of get_projectile_locations from (r, c) in direction (dr, dc).
RECURSIVE ProjectileLine(_, _, _, _, _)
ProjectileLine(r, c, dr, dc, line) ==
    IF 0 <= r /\ r < ROWS /\ 0 <= c /\ c < COLS
    THEN ProjectileLine(r + dr, c + dc, dr, dc,
                        Append(line, <<r, c, PyGet(PyGet(locations, r), c)>>))
    ELSE line

\* A walk that starts on the origin cell instead of the cell after it.
ProjectileStartAtOrigin(row, col, d) ==
    ProjectileLine(row, col, d[1], d[2], <<>>)

\* One iteration of `for dr, dc in directions` of get_projectile_locations.
ProjectileStart(row, col, d) ==
    ProjectileLine(row + d[1], col + d[2], d[1], d[2], <<>>)

\* The loop `for dr, dc in directions` of get_projectile_locations from the
\* k-th direction on.
RECURSIVE ProjectileLines(_, _, _, _)
ProjectileLines(row, col, k, lines) ==
    IF k > Len(Directions) THEN lines
    ELSE ProjectileLines(row, col, k + 1,
                         Append(lines, ProjectileStart(row, col, Directions[k])))

\* A loop over the directions that leaves out the first (up).
get_projectile_locations_no_up(row, col) ==
    <<<<>>>> \o ProjectileLines(row, col, 2, <<>>)

\* Board.get_projectile_locations
get_projectile_locations(row, col) == ProjectileLines(row, col, 1, <<>>)

\* The loop shared by get_adjacent_locations and get_nearby_locations over the
\* directions from the k-th on.
RECURSIVE Neighbours(_, _, _, _, _)
Neighbours(row, col, dirs, k, acc) ==
    IF k > Len(dirs) THEN acc
    ELSE LET r == row + dirs[k][1]
             c == col + dirs[k][2]
             loc == get_location(r, c)
         IN  Neighbours(row, col, dirs, k + 1,
                        IF Truthy(loc) THEN Append(acc, <<r, c, loc>>) ELSE acc)

\* A neighbour list that leaves out the last direction (right).
get_adjacent_locations_no_right(row, col) ==
    Neighbours(row, col, SubSeq(Directions, 1, 3), 1, <<>>)

\* Board.get_adjacent_locations
get_adjacent_locations(row, col) == Neighbours(row, col, Directions, 1, <<>>)

\* A neighbour list without the diagonal directions.
get_nearby_locations_orthogonal(row, col) == Neighbours(row, col, Directions, 1, <<>>)

\* Board.get_nearby_locations
get_nearby_locations(row, col) == Neighbours(row, col, NearbyDirections, 1, <<>>)

\* How far outside the grid the coordinates of a query may lie.
Margin == 2

QueryRows == (0 - Margin)..(ROWS - 1 + Margin)
QueryCols == (0 - Margin)..(COLS - 1 + Margin)

\* Board.__init__
InitBoard ==
    /\ locations = BoardLocations
    /\ intersections = create_intersections(locations)
    /\ boardCall = [op |-> "__init__", row |-> 0, col |-> 0, ret |-> None]

GetLocation(row, col) ==
    /\ boardCall' = [op |-> "get_location", row |-> row, col |-> col,
                     ret |-> get_location(row, col)]
    /\ UNCHANGED <<locations, intersections>>
    /\ UNCHANGED <<deckVars, rulesVars, gameVars>>

GetIntersection(row, col) ==
    /\ boardCall' = [op |-> "get_intersection", row |-> row, col |-> col,
                     ret |-> get_intersection(row, col)]
    /\ UNCHANGED <<locations, intersections>>
    /\ UNCHANGED <<deckVars, rulesVars, gameVars>>

GetProjectileLocations(row, col) ==
    /\ boardCall' = [op |-> "get_projectile_locations", row |-> row, col |-> col,
                     ret |-> get_projectile_locations(row, col)]
    /\ UNCHANGED <<locations, intersections>>
    /\ UNCHANGED <<deckVars, rulesVars, gameVars>>

GetAdjacentLocations(row, col) ==
    /\ boardCall' = [op |-> "get_adjacent_locations", row |-> row, col |-> col,
                     ret |-> get_adjacent_locations(row, col)]
    /\ UNCHANGED <<locations, intersections>>
    /\ UNCHANGED <<deckVars, rulesVars, gameVars>>

GetNearbyLocations(row, col) ==
    /\ boardCall' = [op |-> "get_nearby_locations", row |-> row, col |-> col,
                     ret |-> get_nearby_locations(row, col)]
    /\ UNCHANGED <<locations, intersections>>
    /\ UNCHANGED <<deckVars, rulesVars, gameVars>>

-----------------------------------------------------------------------------
\* Deck.py

\* The card types of Card.py's docstring.
CardTypes == {"Site", "Minion", "Avatar", "Artifact", "Aura", "Magic"}

\* A card as Deck reads it: an object with a card_type attribute.
Card(name, card_type) == [name |-> name, card_type |-> card_type]

\* One card name of each type.
CardCatalog ==
    << Card("Red Desert", "Site"), Card("Blood Ravens", "Minion"),
       Card("Avatar of Air", "Avatar"), Card("Amulet", "Artifact"),
       Card("Entangle", "Aura"), Card("Fireball", "Magic") >>

\* The largest n passed to draw(n).
MaxDraw == 8
\* How many cards return_to_deck may add beyond the cards of the deck list.
MaxReturned == 1

\* The hand size Deck.mulligan redraws: self.draw(7).
MulliganDraw == 7

RECURSIVE Copies(_, _)
Copies(c, n) == IF n <= 0 THEN <<>> ELSE <<c>> \o Copies(c, n - 1)

\* The deck lists given to Deck.__init__: as Util_Loader.select_decks builds
\* them, `quantity` copies of a card name after the other. Every list of one or
\* two cards of the catalog, and the lists of up to MulliganDraw copies of a
\* Minion followed by at most one Magic card (libraries smaller than, as large as
\* and larger than the hand a mulligan draws).
DeckLists ==
    { Copies(Card("Blood Ravens", "Minion"), n) \o Copies(Card("Fireball", "Magic"), m) :
        n \in 0..MulliganDraw, m \in 0..1 }
    \cup { <<CardCatalog[i]>> : i \in 1..Len(CardCatalog) }
    \cup { <<CardCatalog[i], CardCatalog[k]>> :
             i \in 1..Len(CardCatalog), k \in 1..Len(CardCatalog) }

Count(seq, x) == Cardinality({k \in 1..Len(seq) : seq[k] = x})

\* The multiset of the elements of a list.
BagOf(seq) == [x \in Range(seq) |-> Count(seq, x)]

\* random.shuffle(x): x in any order (the head of the list at any place of any
\* order of the rest).
RECURSIVE Shuffles(_)
Shuffles(seq) ==
    IF seq = <<>> THEN {<<>>}
    ELSE { SubSeq(rest, 1, k) \o <<Head(seq)>> \o SubSeq(rest, k + 1, Len(rest)) :
             rest \in Shuffles(Tail(seq)), k \in 0..(Len(seq) - 1) }

\* A draw loop that runs n - 1 times.
RECURSIVE drawOneShort(_, _, _)
drawOneShort(lib, hnd, n) ==
    IF n <= 1 THEN [library |-> lib, hand |-> hnd]
    ELSE IF lib /= <<>>
         THEN drawOneShort(SubSeq(lib, 1, Len(lib) - 1), Append(hnd, lib[Len(lib)]), n - 1)
         ELSE drawOneShort(lib, hnd, n - 1)

\* A draw loop that pops the first card of the library (pop(0)).
RECURSIVE drawFromFront(_, _, _)
drawFromFront(lib, hnd, n) ==
    IF n <= 0 THEN [library |-> lib, hand |-> hnd]
    ELSE IF lib /= <<>>
         THEN drawFromFront(Tail(lib), Append(hnd, Head(lib)), n - 1)
         ELSE drawFromFront(lib, hnd, n - 1)

\* The loop of Deck.draw: `if self.library: self.hand.append(self.library.pop())`,
\* n times.
RECURSIVE draw(_, _, _)
draw(lib, hnd, n) ==
    IF n <= 0 THEN [library |-> lib, hand |-> hnd]
    ELSE IF lib /= <<>>
         THEN draw(SubSeq(lib, 1, Len(lib) - 1), Append(hnd, lib[Len(lib)]), n - 1)
         ELSE draw(lib, hnd, n - 1)

\* Deck.search with the condition `card.card_type == t`:
\* [card for card in self.library if condition(card)]
search(lib, t) == SelectSeq(lib, LAMBDA card : card.card_type = t)

\* [card for card in cards if card.card_type == 'Site']
AtlasOf(cs) == SelectSeq(cs, LAMBDA card : card.card_type = "Site")

\* [card for card in cards if card.card_type in ['Magic', 'Aura', 'Artifact']]
SpellbookOf(cs) ==
    SelectSeq(cs, LAMBDA card : card.card_type \in {"Magic", "Aura", "Artifact"})

\* [card for card in cards if card.card_type not in ['Site']]
LibraryOf(cs) == SelectSeq(cs, LAMBDA card : card.card_type \notin {"Site"})

\* Deck.__init__
InitDeck ==
    /\ cards \in DeckLists
    /\ atlas = AtlasOf(cards)
    /\ spellbook = SpellbookOf(cards)
    /\ hand = <<>>
    /\ cemetery = <<>>
    /\ library \in Shuffles(LibraryOf(cards))
    /\ deckCall = [op |-> "__init__", ret |-> None]

\* Deck.draw
Draw(n) ==
    /\ library' = draw(library, hand, n).library
    /\ hand' = draw(library, hand, n).hand
    /\ deckCall' = [op |-> "draw", ret |-> None]
    /\ UNCHANGED <<cards, atlas, spellbook, cemetery>>
    /\ UNCHANGED <<boardVars, rulesVars, gameVars>>

\* A mulligan that does not empty the hand (no `self.hand = []`).
MulliganKeepsHand ==
    /\ \E shuffled \in Shuffles(library \o hand) :
          /\ library' = draw(shuffled, hand, MulliganDraw).library
          /\ hand' = draw(shuffled, hand, MulliganDraw).hand
    /\ deckCall' = [op |-> "mulligan", ret |-> None]
    /\ UNCHANGED <<cards, atlas, spellbook, cemetery>>
    /\ UNCHANGED <<boardVars, rulesVars, gameVars>>

\* Deck.mulligan
Mulligan ==
    /\ \E shuffled \in Shuffles(library \o hand) :
          /\ library' = draw(shuffled, <<>>, MulliganDraw).library
          /\ hand' = draw(shuffled, <<>>, MulliganDraw).hand
    /\ deckCall' = [op |-> "mulligan", ret |-> None]
    /\ UNCHANGED <<cards, atlas, spellbook, cemetery>>
    /\ UNCHANGED <<boardVars, rulesVars, gameVars>>

\* A search that takes the cards it finds out of the library.
SearchRemovesFound(t) ==
    /\ deckCall' = [op |-> "search", ret |-> search(library, t)]
    /\ library' = SelectSeq(library, LAMBDA card : card.card_type /= t)
    /\ UNCHANGED <<cards, atlas, spellbook, hand, cemetery>>
    /\ UNCHANGED <<boardVars, rulesVars, gameVars>>

\* Deck.search, with the condition `card.card_type == t`
Search(t) ==
    /\ deckCall' = [op |-> "search", ret |-> search(library, t)]
    /\ UNCHANGED <<cards, atlas, spellbook, hand, cemetery, library>>
    /\ UNCHANGED <<boardVars, rulesVars, gameVars>>

\* The position of the first occurrence of x in seq (0 when there is none).
FirstIndex(seq, x) ==
    IF \E k \in 1..Len(seq) : seq[k] = x
    THEN CHOOSE k \in 1..Len(seq) : seq[k] = x /\ \A m \in 1..(k - 1) : seq[m] /= x
    ELSE 0

\* A return_to_deck that also takes the card out of the hand (hand.remove(card)).
ReturnToDeckFromHand(card) ==
    /\ Len(library) + Len(hand) < Len(LibraryOf(cards)) + MaxReturned
    /\ library' \in Shuffles(Append(library, card))
    /\ hand' = IF FirstIndex(hand, card) = 0 THEN hand
               ELSE SubSeq(hand, 1, FirstIndex(hand, card) - 1)
                    \o SubSeq(hand, FirstIndex(hand, card) + 1, Len(hand))
    /\ deckCall' = [op |-> "return_to_deck", ret |-> None]
    /\ UNCHANGED <<cards, atlas, spellbook, cemetery>>
    /\ UNCHANGED <<boardVars, rulesVars, gameVars>>

\* Deck.return_to_deck
ReturnToDeck(card) ==
    /\ Len(library) + Len(hand) < Len(LibraryOf(cards)) + MaxReturned
    /\ library' \in Shuffles(Append(library, card))
    /\ deckCall' = [op |-> "return_to_deck", ret |-> None]
    /\ UNCHANGED <<cards, atlas, spellbook, hand, cemetery>>
    /\ UNCHANGED <<boardVars, rulesVars, gameVars>>

\* Deck.shuffle
Shuffle ==
    /\ library' \in Shuffles(library)
    /\ deckCall' = [op |-> "shuffle", ret |-> None]
    /\ UNCHANGED <<cards, atlas, spellbook, hand, cemetery>>
    /\ UNCHANGED <<boardVars, rulesVars, gameVars>>

-----------------------------------------------------------------------------
\* Rules_Engine.py

\* RulesEngine.__init__
InitRules ==
    /\ ability_lookup = <<>>
    /\ storyline = <<>>
    /\ rulesCall = [op |-> "__init__", ret |-> None]
    /\ rulesArgs = None

\* The events given to insert_triggered_event: the role of the player who
\* controls the event, the game action or phase boundary that triggered it
\* (events of one trigger are simultaneous) and the place in the queue the
\* event asks for: the tail ("Append"), or for one event the head ("Prepend").
\* insert_triggered_event reads none of the three.
MaxTriggers == 2
TriggeredEvents ==
    [controller : {"active", "non_active"}, trigger : 1..MaxTriggers,
     insert_mode : {"Append"}]
    \cup [controller : {"active"}, trigger : {1}, insert_mode : {"Prepend"}]

\* The longest storyline followed.
MaxStoryline == 3

\* The attributes of a Card object (Card.__init__) the rules of movement and
\* combat are about.
CardInPlay(attack, life, isLeathal, isWaterbound, isLandbound, isVoidwalker) ==
    [attack |-> attack, life |-> life, isLeathal |-> isLeathal,
     isWaterbound |-> isWaterbound, isLandbound |-> isLandbound,
     isVoidwalker |-> isVoidwalker]

\* The cards given to move: every setting of the three terrain flags.
MoveCards ==
    { CardInPlay(1, 1, FALSE, w, l, v) : w \in BOOLEAN, l \in BOOLEAN, v \in BOOLEAN }

\* The boards given to move, by the cells whose Location.isWater is true, and
\* the steps: the cell moved to, a Water cell or a land cell.
WaterCells == {<<0, 0>>}
MoveSteps == {<<0, 0>>, <<0, 1>>}

\* The cards given to fight: attackers with and without the lethal flag, of
\* attack 0 and 2, and defenders of life 1 and 3.
Attackers ==
    { CardInPlay(2, 1, FALSE, FALSE, FALSE, FALSE),
      CardInPlay(0, 1, TRUE, FALSE, FALSE, FALSE),
      CardInPlay(2, 1, TRUE, FALSE, FALSE, FALSE) }
Defenders ==
    { CardInPlay(1, 1, FALSE, FALSE, FALSE, FALSE),
      CardInPlay(1, 3, FALSE, FALSE, FALSE, FALSE) }

\* The ability keywords given to resolve_ability.
Abilities == {"Genesis", "Voidwalk"}

\* RulesEngine.parse_keywords
ParseKeywords ==
    /\ rulesCall' = [op |-> "parse_keywords", ret |-> None]
    /\ rulesArgs' = None
    /\ UNCHANGED <<ability_lookup, storyline, boardVars, deckVars, gameVars>>

\* RulesEngine.resolve_ability
ResolveAbility(card, ability) ==
    /\ rulesCall' = [op |-> "resolve_ability", ret |-> None]
    /\ rulesArgs' = [card |-> card, ability |-> ability]
    /\ UNCHANGED <<ability_lookup, storyline, boardVars, deckVars, gameVars>>

\* An insertion that honours the event's insert_mode: a Prepend event goes to
\* the head of the storyline.
InsertTriggeredEventByMode(event) ==
    /\ Len(storyline) < MaxStoryline
    /\ storyline' = IF event.insert_mode = "Prepend"
                    THEN <<event>> \o storyline
                    ELSE Append(storyline, event)
    /\ rulesCall' = [op |-> "insert_triggered_event", ret |-> None]
    /\ rulesArgs' = [event |-> event]
    /\ UNCHANGED <<ability_lookup, boardVars, deckVars, gameVars>>

\* RulesEngine.insert_triggered_event
InsertTriggeredEvent(event) ==
    /\ Len(storyline) < MaxStoryline
    /\ storyline' = Append(storyline, event)
    /\ rulesCall' = [op |-> "insert_triggered_event", ret |-> None]
    /\ rulesArgs' = [event |-> event]
    /\ UNCHANGED <<ability_lookup, boardVars, deckVars, gameVars>>

\* RulesEngine.enforce_timing
EnforceTiming ==
    /\ rulesCall' = [op |-> "enforce_timing", ret |-> None]
    /\ rulesArgs' = None
    /\ UNCHANGED <<ability_lookup, storyline, boardVars, deckVars, gameVars>>

\* RulesEngine.move: the card and the board are left as they were given.
Move(card, step, water) ==
    /\ rulesCall' = [op |-> "move", ret |-> None]
    /\ rulesArgs' = [card |-> card, step |-> step, water |-> water]
    /\ UNCHANGED <<ability_lookup, storyline, boardVars, deckVars, gameVars>>

\* RulesEngine.fight: attacker and defender are left as they were given
\* (`before` is the defender's life at the call).
Fight(attacker, defender) ==
    /\ rulesCall' = [op |-> "fight", ret |-> None]
    /\ rulesArgs' = [attacker |-> attacker, defender |-> defender,
                     before |-> defender.life]
    /\ UNCHANGED <<ability_lookup, storyline, boardVars, deckVars, gameVars>>

\* No Board.
NoBoard ==
    /\ locations = <<>>
    /\ intersections = <<>>
    /\ boardCall = [op |-> "None", row |-> 0, col |-> 0, ret |-> None]

\* No Deck: each Player is created with deck = None.
NoDeck ==
    /\ cards = <<>>
    /\ atlas = <<>>
    /\ spellbook = <<>>
    /\ hand = <<>>
    /\ cemetery = <<>>
    /\ library = <<>>
    /\ deckCall = [op |-> "__init__", ret |-> None]

-----------------------------------------------------------------------------
\* Player.py and Game_Manager.py

\* Player.__init__
Player(id) == [id |-> id, life |-> 20, mana |-> 0]

\* Game_Manager.__init__ (run has not been called).
InitGameManager ==
    /\ players = <<Player(0), Player(1)>>
    /\ state = PyInt(0)
    /\ turn = 0
    /\ pc = "idle"
    /\ gmCall = [op |-> "__init__", ret |-> None]

\* The return values of Game_Manager.is_game_over, start_phase, main_phase and
\* end_phase: the first returns False, the phases end without a return statement.
is_game_over == PyBool(FALSE)
start_phase == None
main_phase == None
end_phase == None

\* The values a caller gives Player.life (a plain attribute; no method of the
\* engine writes it): the starting life, 0 and a negative life.
LifeValues == {20, 0, 0 - 1}

\* players[p].life = life, by the code that holds the Game_Manager.
SetLife(p, life) ==
    /\ pc = "idle"
    /\ players[p].life /= life
    /\ players' = [players EXCEPT ![p].life = life]
    /\ UNCHANGED <<state, turn, pc, gmCall, boardVars, deckVars, rulesVars>>

\* The values a caller gives Player.mana (a plain attribute; no method of the
\* engine writes it): an empty pool and a pool with mana left in it.
ManaValues == {0, 2}

\* players[p].mana = mana, by the code that holds the Game_Manager.
SetMana(p, mana) ==
    /\ pc = "idle"
    /\ players[p].mana /= mana
    /\ players' = [players EXCEPT ![p].mana = mana]
    /\ UNCHANGED <<state, turn, pc, gmCall, boardVars, deckVars, rulesVars>>

\* rules_engine.insert_triggered_event(event) on the engine of the Game_Manager.
GameInsertTriggeredEvent(event) ==
    /\ pc = "idle"
    /\ InsertTriggeredEvent(event)

\* Game_Manager.is_game_over, called on its own.
IsGameOver ==
    /\ pc = "idle"
    /\ gmCall' = [op |-> "is_game_over", ret |-> is_game_over]
    /\ UNCHANGED <<players, state, turn, pc, boardVars, deckVars, rulesVars>>

\* Game_Manager.start_phase, called on its own.
StartPhase ==
    /\ pc = "idle"
    /\ gmCall' = [op |-> "start_phase", ret |-> start_phase]
    /\ UNCHANGED <<players, state, turn, pc, boardVars, deckVars, rulesVars>>

\* Game_Manager.main_phase, called on its own.
MainPhase ==
    /\ pc = "idle"
    /\ gmCall' = [op |-> "main_phase", ret |-> main_phase]
    /\ UNCHANGED <<players, state, turn, pc, boardVars, deckVars, rulesVars>>

\* Game_Manager.end_phase, called on its own.
EndPhase ==
    /\ pc = "idle"
    /\ gmCall' = [op |-> "end_phase", ret |-> end_phase]
    /\ UNCHANGED <<players, state, turn, pc, boardVars, deckVars, rulesVars>>

\* The longest game followed: turns counted up to MaxTurn.
MaxTurn == 2

\* Game_Manager.run is called: it first waits for gui_manager.run().
RunCall ==
    /\ pc = "idle"
    /\ pc' = "gui_run"
    /\ UNCHANGED <<players, state, turn, gmCall, boardVars, deckVars, rulesVars>>

\* One step of Game_Manager.run. pc names the statement to execute: the call
\* of a method ("is_game_over", "start_phase", "main_phase", "end_phase"), the
\* test of a `while not` on the value it returned ("..._test") or an assignment
\* ("gui_run", "turn").
RunStep ==
    /\ pc /= "idle"
    /\ IF pc = "gui_run"
       THEN /\ state' = None
            /\ pc' = "is_game_over"
            /\ UNCHANGED <<turn, gmCall>>
       ELSE IF pc = "is_game_over"
       THEN /\ gmCall' = [op |-> "is_game_over", ret |-> is_game_over]
            /\ pc' = "is_game_over_test"
            /\ UNCHANGED <<state, turn>>
       ELSE IF pc = "is_game_over_test"
       THEN /\ pc' = IF Not(gmCall.ret) THEN "start_phase" ELSE "idle"
            /\ UNCHANGED <<state, turn, gmCall>>
       ELSE IF pc = "start_phase"
       THEN /\ gmCall' = [op |-> "start_phase", ret |-> start_phase]
            /\ pc' = "start_phase_test"
            /\ UNCHANGED <<state, turn>>
       ELSE IF pc = "start_phase_test"
       THEN /\ pc' = IF Not(gmCall.ret) THEN "start_phase" ELSE "main_phase"
            /\ UNCHANGED <<state, turn, gmCall>>
       ELSE IF pc = "main_phase"
       THEN /\ gmCall' = [op |-> "main_phase", ret |-> main_phase]
            /\ pc' = "main_phase_test"
            /\ UNCHANGED <<state, turn>>
       ELSE IF pc = "main_phase_test"
       THEN /\ pc' = IF Not(gmCall.ret) THEN "main_phase" ELSE "end_phase"
            /\ UNCHANGED <<state, turn, gmCall>>
       ELSE IF pc = "end_phase"
       THEN /\ gmCall' = [op |-> "end_phase", ret |-> end_phase]
            /\ pc' = "end_phase_test"
            /\ UNCHANGED <<state, turn>>
       ELSE IF pc = "end_phase_test"
       THEN /\ pc' = IF Not(gmCall.ret) THEN "end_phase" ELSE "turn"
            /\ UNCHANGED <<state, turn, gmCall>>
       ELSE /\ pc = "turn"
            /\ turn < MaxTurn
            /\ turn' = turn + 1
            /\ pc' = "is_game_over"
            /\ UNCHANGED <<state, gmCall>>
    /\ UNCHANGED <<players, boardVars, deckVars, rulesVars>>

-----------------------------------------------------------------------------
\* The Board and its queries.
Init == InitBoard /\ NoDeck /\ InitRules /\ InitGameManager
Next ==
    \/ \E row \in QueryRows, col \in QueryCols : GetLocation(row, col)
    \/ \E row \in QueryRows, col \in QueryCols : GetIntersection(row, col)
    \/ \E row \in QueryRows, col \in QueryCols : GetProjectileLocations(row, col)
    \/ \E row \in QueryRows, col \in QueryCols : GetAdjacentLocations(row, col)
    \/ \E row \in QueryRows, col \in QueryCols : GetNearbyLocations(row, col)
Spec == Init /\ [][Next]_vars

\* A Deck and its operations.
InitDeckSpec == NoBoard /\ InitDeck /\ InitRules /\ InitGameManager
NextDeck ==
    \/ \E n \in 0..MaxDraw : Draw(n)
    \/ Mulligan
    \/ \E t \in CardTypes : Search(t)
    \/ \E card \in Range(hand) \cup Range(cemetery) : ReturnToDeck(card)
    \/ Shuffle
SpecDeck == InitDeckSpec /\ [][NextDeck]_vars

\* A RulesEngine and its operations (the board is an argument of move and
\* fight, never a field of the engine).
InitRulesSpec == NoBoard /\ NoDeck /\ InitRules /\ InitGameManager
NextRules ==
    \/ ParseKeywords
    \/ \E card \in Defenders, ability \in Abilities : ResolveAbility(card, ability)
    \/ \E event \in TriggeredEvents : InsertTriggeredEvent(event)
    \/ EnforceTiming
    \/ \E card \in MoveCards, step \in MoveSteps : Move(card, step, WaterCells)
    \/ \E attacker \in Attackers, defender \in Defenders : Fight(attacker, defender)
SpecRules == InitRulesSpec /\ [][NextRules]_vars

\* A Game_Manager, its Players and its RulesEngine. The methods are called one
\* at a time until run is called; run, once called, keeps executing (its loop
\* waits for nothing), which is the fairness of RunStep.
InitGameSpec == InitBoard /\ NoDeck /\ InitRules /\ InitGameManager
NextGame ==
    \/ \E p \in 1..2, life \in LifeValues : SetLife(p, life)
    \/ \E p \in 1..2, mana \in ManaValues : SetMana(p, mana)
    \/ \E event \in TriggeredEvents : GameInsertTriggeredEvent(event)
    \/ IsGameOver
    \/ StartPhase
    \/ MainPhase
    \/ EndPhase
    \/ RunCall
    \/ RunStep
SpecGame == InitGameSpec /\ [][NextGame]_vars /\ WF_vars(RunStep)

-----------------------------------------------------------------------------
\* Properties of the Board (checked under Spec)

InGrid(r, c) == 0 <= r /\ r < ROWS /\ 0 <= c /\ c < COLS
Cells == {rc \in (0..(ROWS - 1)) \X (0..(COLS - 1)) : TRUE}
CellAt(r, c) == locations[r + 1][c + 1]
\* The (row, col) of the entries of a list of (row, col, Location).
Coords(list) == {<<list[k][1], list[k][2]>> : k \in 1..Len(list)}
Abs(x) == IF x < 0 THEN 0 - x ELSE x
Manhattan(r1, c1, r2, c2) == Abs(r1 - r2) + Abs(c1 - c2)

\* C1: for an in-bounds origin get_adjacent_locations returns only in-bounds
\* cells (each with the Location stored there), and B is adjacent to A exactly
\* when A is adjacent to B.
C1_AdjacentInBoundsSymmetric ==
    (boardCall.op = "get_adjacent_locations" /\ InGrid(boardCall.row, boardCall.col)) =>
        /\ \A k \in 1..Len(boardCall.ret) :
              /\ InGrid(boardCall.ret[k][1], boardCall.ret[k][2])
              /\ boardCall.ret[k][3] = CellAt(boardCall.ret[k][1], boardCall.ret[k][2])
        /\ \A b \in Cells :
              (b \in Coords(boardCall.ret))
                  <=> (<<boardCall.row, boardCall.col>>
                          \in Coords(get_adjacent_locations(b[1], b[2])))

\* An inner cell has been queried and has its four neighbours.
C1_Witness ==
    /\ boardCall.op = "get_adjacent_locations"
    /\ InGrid(boardCall.row, boardCall.col)
    /\ Len(boardCall.ret) = 4

\* C2: for every origin, in or outside the grid, get_projectile_locations
\* returns exactly 4 sequences; along each the Manhattan distance from the origin
\* strictly increases, and none holds the origin cell.
C2_ProjectileRays ==
    boardCall.op = "get_projectile_locations" =>
        /\ Len(boardCall.ret) = 4
        /\ \A k \in 1..Len(boardCall.ret) :
              LET line == boardCall.ret[k]
                  Dist(i) == Manhattan(line[i][1], line[i][2], boardCall.row, boardCall.col)
              IN  /\ \A i \in 1..(Len(line) - 1) : Dist(i) < Dist(i + 1)
                  /\ \A i \in 1..Len(line) :
                        <<line[i][1], line[i][2]>> /= <<boardCall.row, boardCall.col>>

\* An origin outside the grid whose ray crosses the whole grid.
C2_Witness ==
    /\ boardCall.op = "get_projectile_locations"
    /\ ~InGrid(boardCall.row, boardCall.col)
    /\ \E k \in 1..Len(boardCall.ret) : Len(boardCall.ret[k]) = ROWS

\* C3: every Intersection has between 1 and 4 adjacent Locations, each a cell
\* of the grid, the base Location (i, j) among them.
C3_IntersectionLocations ==
    \A rc \in Cells :
        LET adj == intersections[rc[1] + 1][rc[2] + 1].adjacent_locations
        IN  /\ 1 <= Len(adj) /\ Len(adj) <= 4
            /\ \A k \in 1..Len(adj) : \E b \in Cells : adj[k] = CellAt(b[1], b[2])
            /\ \E k \in 1..Len(adj) : adj[k] = CellAt(rc[1], rc[2])

\* The intersection of the bottom-right cell has been looked up: it borders
\* one Location only.
C3_Witness ==
    /\ boardCall.op = "get_intersection"
    /\ boardCall.ret /= None
    /\ Len(boardCall.ret.adjacent_locations) = 1

\* C4: the Location at (row, col) has index row*COLS + col + 1; the indices are
\* exactly 1..ROWS*COLS and no two Locations share one.
C4_RowMajorIndex ==
    /\ \A rc \in Cells : CellAt(rc[1], rc[2]).index = rc[1] * COLS + rc[2] + 1
    /\ {CellAt(rc[1], rc[2]).index : rc \in Cells} = 1..(ROWS * COLS)
    /\ \A a \in Cells, b \in Cells :
          CellAt(a[1], a[2]).index = CellAt(b[1], b[2]).index => a = b

\* The last cell of the grid has been looked up.
C4_Witness ==
    /\ boardCall.op = "get_location"
    /\ boardCall.row = ROWS - 1 /\ boardCall.col = COLS - 1
    /\ boardCall.ret.index = ROWS * COLS

\* C5: get_location and get_intersection return what is stored at (row, col)
\* when 0 <= row < ROWS and 0 <= col < COLS, and None otherwise, negative
\* coordinates included; the return value is never the IndexError of a list
\* access out of range.
C5_BoundsChecked ==
    /\ boardCall.op = "get_location" =>
          boardCall.ret = IF InGrid(boardCall.row, boardCall.col)
                          THEN CellAt(boardCall.row, boardCall.col)
                          ELSE None
    /\ boardCall.op = "get_intersection" =>
          boardCall.ret = IF InGrid(boardCall.row, boardCall.col)
                          THEN intersections[boardCall.row + 1][boardCall.col + 1]
                          ELSE None

\* A lookup with a negative row and an in-range column has returned None.
C5_Witness ==
    /\ boardCall.op = "get_location"
    /\ boardCall.row < 0
    /\ 0 <= boardCall.col /\ boardCall.col < COLS
    /\ boardCall.ret = None

Max(a, b) == IF a >= b THEN a ELSE b
Chebyshev(r1, c1, r2, c2) == Max(Abs(r1 - r2), Abs(c1 - c2))

\* C23: for an in-bounds origin get_nearby_locations returns exactly the cells
\* of the grid at Chebyshev distance 1 (the origin is not among them), each once
\* and with the Location stored there, so at most 8; every cell that
\* get_adjacent_locations returns for the origin, at most 4, is among them.
C23_NearbyLocations ==
    (boardCall.op = "get_nearby_locations" /\ InGrid(boardCall.row, boardCall.col)) =>
        /\ Coords(boardCall.ret)
              = {b \in Cells : Chebyshev(b[1], b[2], boardCall.row, boardCall.col) = 1}
        /\ Len(boardCall.ret) = Cardinality(Coords(boardCall.ret))
        /\ Len(boardCall.ret) <= 8
        /\ \A k \in 1..Len(boardCall.ret) :
              boardCall.ret[k][3] = CellAt(boardCall.ret[k][1], boardCall.ret[k][2])
        /\ Coords(get_adjacent_locations(boardCall.row, boardCall.col))
              \subseteq Coords(boardCall.ret)
        /\ Len(get_adjacent_locations(boardCall.row, boardCall.col)) <= 4

\* An inner cell has been queried and has its eight neighbours.
C23_Witness ==
    /\ boardCall.op = "get_nearby_locations"
    /\ InGrid(boardCall.row, boardCall.col)
    /\ Len(boardCall.ret) = 8

\* The unit step of the k-th ray (up, down, left, right) and the number of
\* cells between (row, col) and the grid edge that way.
RayStep(k) == IF k = 1 THEN <<0 - 1, 0>> ELSE IF k = 2 THEN <<1, 0>>
              ELSE IF k = 3 THEN <<0, 0 - 1>> ELSE <<0, 1>>
RayLength(k, row, col) == IF k = 1 THEN row ELSE IF k = 2 THEN ROWS - 1 - row
                          ELSE IF k = 3 THEN col ELSE COLS - 1 - col

\* C24: for an in-bounds origin get_projectile_locations returns the four rays
\* in the order up, down, left, right; the n-th element of a ray is the cell n
\* steps from the origin with its Location, and the ray runs to the grid edge;
\* the same call on the same board returns the same rays.
C24_ProjectileRayOrder ==
    (boardCall.op = "get_projectile_locations" /\ InGrid(boardCall.row, boardCall.col)) =>
        /\ Len(boardCall.ret) = 4
        /\ \A k \in 1..4 :
              /\ Len(boardCall.ret[k]) = RayLength(k, boardCall.row, boardCall.col)
              /\ \A n \in 1..Len(boardCall.ret[k]) :
                    LET r == boardCall.row + n * RayStep(k)[1]
                        c == boardCall.col + n * RayStep(k)[2]
                    IN  boardCall.ret[k][n] = <<r, c, CellAt(r, c)>>
        /\ get_projectile_locations(boardCall.row, boardCall.col) = boardCall.ret

\* The rays of an inner cell: none is empty, and up and down each hold two cells.
C24_Witness ==
    /\ boardCall.op = "get_projectile_locations"
    /\ InGrid(boardCall.row, boardCall.col)
    /\ \A k \in 1..4 : Len(boardCall.ret[k]) >= 1
    /\ Len(boardCall.ret[1]) = 2 /\ Len(boardCall.ret[2]) = 2

\* C25: the intersection of a cell (i, j) with a row below and a column to the
\* right covers exactly the block (i, j), (i, j+1), (i+1, j), (i+1, j+1); in the
\* last row or column it covers exactly the cell itself and those of its south
\* and east neighbours that exist (the bottom-right cell alone). No Location is
\* covered twice.
C25_IntersectionBlocks ==
    \A rc \in Cells :
        LET i == rc[1]
            j == rc[2]
            adj == intersections[i + 1][j + 1].adjacent_locations
            covered == {adj[k] : k \in 1..Len(adj)}
        IN  /\ Len(adj) = Cardinality({adj[k].index : k \in 1..Len(adj)})
            /\ covered =
                 IF i < ROWS - 1 /\ j < COLS - 1
                 THEN {CellAt(i, j), CellAt(i, j + 1), CellAt(i + 1, j), CellAt(i + 1, j + 1)}
                 ELSE {CellAt(i, j)}
                      \cup (IF i < ROWS - 1 THEN {CellAt(i + 1, j)} ELSE {})
                      \cup (IF j < COLS - 1 THEN {CellAt(i, j + 1)} ELSE {})

\* The intersection of a cell of the last row that has an east neighbour has
\* been looked up: it covers two Locations.
C25_Witness ==
    /\ boardCall.op = "get_intersection"
    /\ boardCall.row = ROWS - 1
    /\ 0 <= boardCall.col /\ boardCall.col < COLS - 1
    /\ Len(boardCall.ret.adjacent_locations) = 2

\* C29: for an in-bounds origin the first cells of the non-empty rays of
\* get_projectile_locations are exactly the cells get_adjacent_locations
\* returns, and every cell of a ray is in the origin's row or column.
C29_RayHeadsAreAdjacent ==
    (boardCall.op = "get_projectile_locations" /\ InGrid(boardCall.row, boardCall.col)) =>
        /\ { <<boardCall.ret[k][1][1], boardCall.ret[k][1][2]>> :
                k \in {m \in 1..Len(boardCall.ret) : Len(boardCall.ret[m]) > 0} }
              = Coords(get_adjacent_locations(boardCall.row, boardCall.col))
        /\ \A k \in 1..Len(boardCall.ret) : \A n \in 1..Len(boardCall.ret[k]) :
              \/ boardCall.ret[k][n][1] = boardCall.row
              \/ boardCall.ret[k][n][2] = boardCall.col

\* The rays of the top-left corner: up and left are empty, down and right are not.
C29_Witness ==
    /\ boardCall.op = "get_projectile_locations"
    /\ boardCall.row = 0 /\ boardCall.col = 0
    /\ Len(boardCall.ret[1]) = 0 /\ Len(boardCall.ret[3]) = 0
    /\ Len(boardCall.ret[2]) > 0 /\ Len(boardCall.ret[4]) > 0

-----------------------------------------------------------------------------
\* Properties of the Deck (checked under SpecDeck)

\* C7: shuffle() keeps the library's multiset and the hand, and a draw(n) with
\* n the library size right after it empties the library into the hand: the
\* cards drawn are the multiset of the library and the hand grows by all of them.
C7_ShuffleDrawAllRoundTrip ==
    [][ /\ deckCall'.op = "shuffle" =>
              /\ BagOf(library') = BagOf(library)
              /\ Len(library') = Len(library)
              /\ hand' = hand
        /\ (deckCall.op = "shuffle" /\ Draw(Len(library))) =>
              /\ library' = <<>>
              /\ Len(hand') = Len(hand) + Len(library)
              /\ SubSeq(hand', 1, Len(hand)) = hand
              /\ BagOf(SubSeq(hand', Len(hand) + 1, Len(hand'))) = BagOf(library)
      ]_vars

\* A draw has emptied a library of two card names into the hand.
C7_Witness ==
    /\ deckCall.op = "draw"
    /\ library = <<>>
    /\ Len(hand) = Len(LibraryOf(cards))
    /\ Cardinality(Range(hand)) = 2

\* C8: a mulligan from a hand of MulliganDraw cards (after draw(7) from a library
\* of at least 7) leaves a hand of exactly MulliganDraw cards; hand plus library
\* hold the same multiset as before and the library has the size it had.
C8_MulliganConserves ==
    [][ (deckCall'.op = "mulligan" /\ Len(hand) = MulliganDraw) =>
            /\ Len(hand') = MulliganDraw
            /\ BagOf(hand' \o library') = BagOf(hand \o library)
            /\ Len(library') = Len(library)
      ]_vars

\* A mulligan has left a hand of 7 and a non-empty library, of a deck of 8 cards
\* none of which was added by return_to_deck.
C8_Witness ==
    /\ deckCall.op = "mulligan"
    /\ Len(hand) = MulliganDraw
    /\ library /= <<>>
    /\ Len(hand) + Len(library) = Len(LibraryOf(cards))
    /\ Cardinality(Range(hand \o library)) = 2

\* The number of times card x is held by the five zones together.
ZoneCount(x) ==
    Count(atlas, x) + Count(spellbook, x) + Count(library, x)
        + Count(hand, x) + Count(cemetery, x)

\* C9: every card instance is in exactly one of Atlas, Spellbook, Library,
\* Hand and Cemetery: each card name is held by the zones together as many times
\* as the deck list has it.
C9_ZoneExclusivity ==
    \A x \in Range(cards) \cup Range(atlas) \cup Range(spellbook) \cup Range(library)
             \cup Range(hand) \cup Range(cemetery) :
        ZoneCount(x) = Count(cards, x)

\* C10: construction puts every Site card in the Atlas and every other card in
\* the Spellbook, so Atlas and Spellbook together hold every card of the deck.
C10_AtlasSpellbookSplit ==
    deckCall.op = "__init__" =>
        /\ atlas = SelectSeq(cards, LAMBDA card : card.card_type = "Site")
        /\ spellbook = SelectSeq(cards, LAMBDA card : card.card_type /= "Site")
        /\ \A x \in Range(cards) : Count(atlas, x) + Count(spellbook, x) = Count(cards, x)

Min(a, b) == IF a <= b THEN a ELSE b

\* C26: draw(n) moves exactly min(n, len(library)) cards, the last card of the
\* library first, each to the end of the hand; on an empty library it changes
\* neither hand nor library and returns None as ever.
C26_DrawMovesFromEnd ==
    [][ deckCall'.op = "draw" =>
          \A n \in 0..MaxDraw :
            Draw(n) =>
              LET k == Min(n, Len(library))
              IN  /\ library' = SubSeq(library, 1, Len(library) - k)
                  /\ hand' = hand \o [i \in 1..k |-> library[Len(library) + 1 - i]]
                  /\ library = <<>> => (hand' = hand /\ library' = library)
                  /\ deckCall'.ret = None
      ]_vars

\* A draw has left cards in the library and put two different cards in the hand.
C26_Witness ==
    /\ deckCall.op = "draw"
    /\ library /= <<>>
    /\ Len(hand) >= 2
    /\ Cardinality(Range(hand)) = 2

\* C27: every draw, mulligan, shuffle and search keeps the multiset of hand
\* and library together and leaves atlas, spellbook and cemetery as they were,
\* so as long as nothing was returned to the deck hand and library together hold
\* the multiset the construction put in the library; a mulligan leaves a hand of
\* min(7, hand size + library size before it) cards.
C27_Conservation ==
    [][ /\ deckCall'.op \in {"draw", "mulligan", "shuffle", "search"} =>
              /\ BagOf(hand' \o library') = BagOf(hand \o library)
              /\ UNCHANGED <<atlas, spellbook, cemetery>>
        /\ deckCall'.op = "mulligan" =>
              Len(hand') = Min(MulliganDraw, Len(hand) + Len(library))
        /\ Len(hand) + Len(library) = Len(LibraryOf(cards)) =>
              BagOf(hand \o library) = BagOf(LibraryOf(cards))
      ]_vars

\* A mulligan on a deck of fewer than 7 cards: the hand holds them all.
C27_Witness ==
    /\ deckCall.op = "mulligan"
    /\ library = <<>>
    /\ Len(hand) >= 2 /\ Len(hand) < MulliganDraw
    /\ Len(hand) = Len(LibraryOf(cards))

-----------------------------------------------------------------------------
\* Properties of the RulesEngine (checked under SpecRules)

\* C6: once enforce_timing has run, no event of the active player stands in the
\* storyline before an event of the non-active player of the same trigger, so a
\* FIFO drain resolves the non-active player's events first.
C6_NonActiveFirst ==
    rulesCall.op = "enforce_timing" =>
        \A i \in 1..Len(storyline), j \in 1..Len(storyline) :
            (i < j /\ storyline[i].trigger = storyline[j].trigger)
                => ~(storyline[i].controller = "active"
                        /\ storyline[j].controller = "non_active")

\* The destination of the last move is a Water cell of the board it was given.
DestinationIsWater == rulesArgs.step \in rulesArgs.water

\* C11: move refuses (returns False) a landbound card every Water destination,
\* and a waterbound card every destination that is not Water unless the card's
\* isVoidwalker flag is set.
C11_TerrainMoveCheck ==
    rulesCall.op = "move" =>
        /\ (rulesArgs.card.isLandbound /\ DestinationIsWater)
              => rulesCall.ret = PyBool(FALSE)
        /\ (rulesArgs.card.isWaterbound /\ ~DestinationIsWater
                /\ ~rulesArgs.card.isVoidwalker)
              => rulesCall.ret = PyBool(FALSE)

\* C12: after fight, the defender struck by an attacker whose isLeathal flag is
\* set has life 0 whatever the attacker's attack; struck by an attacker without
\* the flag it has lost exactly attacker.attack.
C12_LethalStrike ==
    rulesCall.op = "fight" =>
        /\ rulesArgs.attacker.isLeathal => rulesArgs.defender.life = 0
        /\ ~rulesArgs.attacker.isLeathal
              => rulesArgs.before - rulesArgs.defender.life = rulesArgs.attacker.attack

\* The outcome that asks for a ruling.
RulingRequired == [tag |-> "RulingRequired"]

\* C13: resolve_ability of an ability that is not a key of ability_lookup
\* returns RulingRequired, and leaves the board, the cards, the players, the
\* storyline and the lookup table as they were.
C13_UnknownAbilityRuling ==
    [][ (rulesCall'.op = "resolve_ability"
            /\ \A key \in DOMAIN ability_lookup : key /= rulesArgs'.ability)
          => /\ rulesCall'.ret = RulingRequired
             /\ UNCHANGED <<boardVars, deckVars, ability_lookup, storyline, players>>
      ]_vars

\* The operations that carry out a player's action, and the outcome that rejects one.
PlayerActions == {"move", "fight", "resolve_ability"}
IllegalAction == [tag |-> "IllegalAction"]

\* C16: a player action (move, fight, resolve_ability) is carried out only
\* when the storyline is empty: called while events are queued it is rejected.
C16_ActionsOnlyOnEmptyStoryline ==
    (rulesCall.op \in PlayerActions /\ rulesCall.ret /= IllegalAction)
        => storyline = <<>>

C19_ResolutionPopsHead ==
    [][ (rulesCall'.op = "enforce_timing" /\ storyline /= <<>>)
          => /\ storyline' = Tail(storyline)
             /\ rulesCall'.ret = None
             /\ UNCHANGED <<boardVars, deckVars, ability_lookup, players>>
      ]_vars

\* A move the terrain rules forbid: a landbound card into Water, or a
\* waterbound card that is no voidwalker out of it.
IllegalMove(card, destinationIsWater) ==
    \/ card.isLandbound /\ destinationIsWater
    \/ card.isWaterbound /\ ~destinationIsWater /\ ~card.isVoidwalker

\* C21: a move that violates the legality rules of the card is rejected with
\* IllegalAction, and leaves the board, the decks, the players, the storyline
\* and the lookup table as they were.
C21_IllegalActionRejected ==
    [][ (rulesCall'.op = "move"
            /\ IllegalMove(rulesArgs'.card, rulesArgs'.step \in rulesArgs'.water))
          => /\ rulesCall'.ret = IllegalAction
             /\ UNCHANGED <<boardVars, deckVars, ability_lookup, storyline, players>>
      ]_vars

-----------------------------------------------------------------------------
\* Properties of the Game_Manager (checked under SpecGame)

\* A player has lost: life <= 0.
SomePlayerLost == \E p \in 1..2 : players[p].life <= 0

\* C14: run takes each turn through Start, Main and End in this order: once
\* in the Start phase it reaches the Main phase, from Main it reaches End, from
\* End it reaches the increment of the turn counter, and the counter changes
\* nowhere else.
C14_PhaseOrder ==
    /\ (pc = "start_phase") ~> (pc = "main_phase")
    /\ (pc = "main_phase") ~> (pc = "end_phase")
    /\ (pc = "end_phase") ~> (pc = "turn")
    /\ [][turn' /= turn => (pc = "turn" /\ pc' = "is_game_over")]_vars

\* C15: when run tests is_game_over with a player at life <= 0 the test holds
\* and no phase is entered; with both players above 0 it does not hold and run
\* goes on.
C15_TerminalOnWin ==
    /\ (SomePlayerLost /\ pc = "is_game_over_test") => gmCall.ret = PyBool(TRUE)
    /\ SomePlayerLost => pc \notin {"start_phase", "main_phase", "end_phase"}
    /\ (~SomePlayerLost /\ pc = "is_game_over_test") => gmCall.ret = PyBool(FALSE)

\* C20: end_phase leaves the storyline empty, and the storyline is empty
\* whenever the turn counter advances.
C20_EndPhaseDrains ==
    [][ /\ (gmCall'.op = "end_phase" /\ gmCall.op /= "end_phase") => storyline' = <<>>
        /\ turn' /= turn => storyline = <<>>
      ]_vars

\* The player whose turn it is: the players take the turns alternately.
ActivePlayer == (turn % 2) + 1

\* C22: a Player is created with life 20 and mana 0, and start_phase leaves
\* the active player with a mana pool of 0.
C22_ManaResetAtStart ==
    [][ /\ \A id \in {0, 1} : Player(id).life = 20 /\ Player(id).mana = 0
        /\ (gmCall'.op = "start_phase" /\ gmCall.op /= "start_phase")
              => players'[ActivePlayer].mana = 0
      ]_vars

====
